---- MODULE Spec2Model ----
(***************************************************************************)
(* Model of tdgl/device/mesh.py: ensure_unique, generate_mesh (planar      *)
(* straight-line graph construction, first triangulation, refinement loop) *)
(* and oriented_boundary.                                                  *)
(*                                                                         *)
(* Coordinates are floats in the source.  Here they are integers on a      *)
(* small grid; every quantity the source derives from them by halving      *)
(* (the bounding-box centre r0) is kept exactly by working in doubled      *)
(* units, and the area bound of the refinement loop is kept exactly as     *)
(* (n/d) * 0.98^k * sqrt(rn/rd).  Floating-point rounding and underflow    *)
(* are not modelled.                                                       *)
(***************************************************************************)
EXTENDS Integers, Sequences, FiniteSets, TLC

VARIABLES
    \* ---- ensure_unique, called on its own
    u_pc, u_coords, u_once, u_twice,
    \* ---- generate_mesh: the arguments of the call
    args,
    \* ---- generate_mesh: control and locals (source names)
    pc, poly_coords, hole_coords, coords, indices, facets, hole_facets,
    mesh_info, kwargs, min_points, max_edge_length, mesh, max_length, i,
    \* ---- generate_mesh: what the triangulation engine has seen, the outcome
    engine_calls, passed, result, error,
    \* ---- oriented_boundary
    b_pc, points, boundary_edges, polygons, polygon_indices

u_vars == <<u_pc, u_coords, u_once, u_twice>>
g_vars == <<args, pc, poly_coords, hole_coords, coords, indices, facets,
            hole_facets, mesh_info, kwargs, min_points, max_edge_length,
            mesh, max_length, i, engine_calls, passed, result, error>>
b_vars == <<b_pc, points, boundary_edges, polygons, polygon_indices>>
vars == <<u_vars, g_vars, b_vars>>

----------------------------------------------------------------------------
(* Bounds of the model *)

\* longest coordinate sequence handed to ensure_unique on its own
MaxLen == 4
\* coordinates of those sequences range over 0..MaxCoord
MaxCoord == 1
\* most hole rings in one generate_mesh call
MaxHoles == 2
\* most interior points the engine adds to the input points in one build
MaxInserted == 1
\* most rebuilds of the refinement loop that are followed
MaxIter == 3
\* most hole loops in the boundary edge set of oriented_boundary
MaxLoops == 1

----------------------------------------------------------------------------
(* Generic helpers *)

None == <<>>
Some(v) == <<v>>


RECURSIVE GCD(_, _)
GCD(a, b) == IF b = 0 THEN a ELSE GCD(b, a % b)

Range(s) == {s[j] : j \in DOMAIN s}
NoDup(s) == \A j, k \in DOMAIN s : j # k => s[j] # s[k]

RECURSIVE Concat(_)
Concat(ss) == IF ss = <<>> THEN <<>> ELSE Head(ss) \o Concat(Tail(ss))

RECURSIVE SumSeq(_)
SumSeq(s) == IF s = <<>> THEN 0 ELSE Head(s) + SumSeq(Tail(s))

\* np.sort of a set of integers
RECURSIVE Sort(_)
Sort(S) ==
    IF S = {} THEN <<>>
    ELSE LET m == CHOOSE x \in S : \A y \in S : x <= y
         IN <<m>> \o Sort(S \ {m})

\* sequences over S of length lo..hi
SeqsOf(S, lo, hi) == UNION {[1..n -> S] : n \in lo..hi}

----------------------------------------------------------------------------
(* ensure_unique *)

\* lexicographic order of coordinate rows, the order np.unique sorts in
RowLess(p, q) == p[1] < q[1] \/ (p[1] = q[1] /\ p[2] < q[2])

RECURSIVE SortRows(_)
SortRows(S) ==
    IF S = {} THEN <<>>
    ELSE LET m == CHOOSE x \in S : \A y \in S \ {x} : RowLess(x, y)
         IN <<m>> \o SortRows(S \ {m})

\* index (1-based) of the first occurrence of row v
FirstIndex(c, v) == CHOOSE j \in DOMAIN c : c[j] = v /\ \A k \in 1..(j-1) : c[k] # v

\* np.unique(coords, return_index=True, axis=0): the distinct rows in sorted
\* order, and for each the index of its first occurrence
np_unique(c) ==
    LET rows == SortRows(Range(c))
    IN [rows |-> rows, ix |-> [j \in DOMAIN rows |-> FirstIndex(c, rows[j])]]

\* the result without restoring the input order: np.unique's own order
ensure_unique_sorted(c) == np_unique(c).rows

ensure_unique(c) ==
    LET ix == Sort(Range(np_unique(c).ix))
    IN [j \in DOMAIN ix |-> c[ix[j]]]

Grid == (0..MaxCoord) \X (0..MaxCoord)

UInit ==
    /\ u_pc = "call"
    /\ u_coords \in SeqsOf(Grid, 1, MaxLen)
    /\ u_once = <<>>
    /\ u_twice = <<>>

UIdle ==
    /\ u_pc = "idle" /\ u_coords = <<>> /\ u_once = <<>> /\ u_twice = <<>>

CallEnsureUnique ==
    /\ u_pc = "call"
    /\ u_once' = ensure_unique(u_coords)
    /\ u_pc' = "once"
    /\ UNCHANGED <<u_coords, u_twice, g_vars, b_vars>>

CallEnsureUniqueAgain ==
    /\ u_pc = "once"
    /\ u_twice' = ensure_unique(u_once)
    /\ u_pc' = "twice"
    /\ UNCHANGED <<u_coords, u_once, g_vars, b_vars>>

----------------------------------------------------------------------------
(* generate_mesh: numbers *)

\* An exact real: (n/d) * 0.98^k * sqrt(rn/rd).
Real(n, d) == [n |-> n, d |-> d, k |-> 0, rn |-> 1, rd |-> 1]

\* a wrong starting bound: dx * dy * 100
InitialMaxVolumeTimes100(dx, dy) == Real(dx * dy * 100, 1)

\* kwargs["max_volume"] = dx * dy / 100
InitialMaxVolume(dx, dy) == Real(dx * dy, 100)

\* np.isfinite(max_edge_length): the local is a finite target Some(t), or
\* np.inf, written None
IsFinite(target) == target # None

\* sqrt(target / max_length) < 0.98, i.e. target / max_length < 2401/2500
SqrtBelowCap(target, ml) == 2500 * target < 2401 * ml

\* v * sqrt(t/ml), the ratio under the root kept in lowest terms
TimesSqrt(v, t, ml) ==
    LET a == v.rn * t
        b == v.rd * ml
        g == GCD(a, b)
    IN [v EXCEPT !.rn = a \div g, !.rd = b \div g]

\* v * 0.98
TimesCap(v) == [v EXCEPT !.k = v.k + 1]

\* the update taking max(...) where the source takes min(...)
ShrinkByMax(v, target, ml) ==
    IF IsFinite(target) /\ ~SqrtBelowCap(target[1], ml)
    THEN TimesSqrt(v, target[1], ml)
    ELSE TimesCap(v)

\* kwargs["max_volume"] *= min(0.98, np.sqrt(max_edge_length / max_length))
\* when the target is finite, *= 0.98 otherwise
Shrink(v, target, ml) ==
    IF IsFinite(target) /\ SqrtBelowCap(target[1], ml)
    THEN TimesSqrt(v, target[1], ml)
    ELSE TimesCap(v)

OptionKeys == {"min_angle", "max_volume"}
NoOptions == [key \in OptionKeys |-> None]

----------------------------------------------------------------------------
(* generate_mesh: the planar straight-line graph, lines 54-100 *)

MinOf(S) == CHOOSE x \in S : \A y \in S : x <= y
MaxOf(S) == CHOOSE x \in S : \A y \in S : x >= y
\* np.ptp
Ptp(S) == MaxOf(S) - MinOf(S)

DedupPoly(a) == ensure_unique(a.poly_coords)
DedupHoles(a) == [j \in DOMAIN a.hole_coords |-> ensure_unique(a.hole_coords[j])]

\* np.concatenate([poly_coords] + hole_coords), before recentering
Concatenated(a) == DedupPoly(a) \o Concat(DedupHoles(a))

Xs(a) == {p[1] : p \in Range(Concatenated(a))}
Ys(a) == {p[2] : p \in Range(Concatenated(a))}
Dx(a) == Ptp(Xs(a))
Dy(a) == Ptp(Ys(a))
\* 2 * r0: r0 = (xmin, ymin) + (dx, dy) / 2
TwoR0(a) == <<2 * MinOf(Xs(a)) + Dx(a), 2 * MinOf(Ys(a)) + Dy(a)>>

\* p - r0, in doubled units
Recenter(p, a) == <<2 * p[1] - TwoR0(a)[1], 2 * p[2] - TwoR0(a)[2]>>

\* coords = coords - r0
Recentered(a) == [j \in DOMAIN Concatenated(a) |-> Recenter(Concatenated(a)[j], a)]

\* np.arange(n)
Arange(lo, hi) == [j \in 1..(hi - lo) |-> lo + j - 1]

\* np.array([idx, np.roll(idx, -1)]).T
CycleFacets(idx) == [j \in DOMAIN idx |-> <<idx[j], idx[(j % Len(idx)) + 1]>>]

\* tuple(coords[i]) in boundary - r0: ndarray.__contains__ is
\* (array == value).any(), the comparison broadcast over the (m, 2) array, so
\* it holds as soon as one coordinate equals the same column of some row
InBoundary(c, bnd, a) ==
    \E j \in DOMAIN bnd :
        \/ c[1] = Recenter(bnd[j], a)[1]
        \/ c[2] = Recenter(bnd[j], a)[2]

\* indices = [i for i in indices if tuple(coords[i]) in boundary - r0]
SelectIndices(a) ==
    LET all == Arange(0, Len(DedupPoly(a)))
        keep(ix) == InBoundary(Recentered(a)[ix + 1], a.boundary[1], a)
    IN IF a.boundary = None THEN all ELSE SelectSeq(all, keep)

Cross(p, q, r) == (q[1] - p[1]) * (r[2] - p[2]) - (q[2] - p[2]) * (r[1] - p[1])
Dot(p, q, r) == (q[1] - p[1]) * (r[1] - p[1]) + (q[2] - p[2]) * (r[2] - p[2])

\* rows j < k (1-based) are the ends of an edge of the convex hull of c
HullEdge(c, j, k) ==
    /\ c[j] # c[k]
    /\ FirstIndex(c, c[j]) = j /\ FirstIndex(c, c[k]) = k
    /\ \/ \A m \in DOMAIN c : Cross(c[j], c[k], c[m]) >= 0
       \/ \A m \in DOMAIN c : Cross(c[j], c[k], c[m]) <= 0
    /\ \A m \in DOMAIN c :
          Cross(c[j], c[k], c[m]) = 0 =>
             /\ Dot(c[j], c[k], c[m]) >= 0
             /\ Dot(c[k], c[j], c[m]) >= 0

RECURSIVE SortPairs(_)
SortPairs(S) ==
    IF S = {} THEN <<>>
    ELSE LET m == CHOOSE x \in S : \A y \in S \ {x} : RowLess(x, y)
         IN <<m>> \o SortPairs(S \ {m})

\* spatial.ConvexHull(coords).simplices: the hull's edges as index pairs
\* (0-based); their order is Qhull's, here by index
ConvexHullSimplices(c) ==
    SortPairs({e \in (0..(Len(c) - 1)) \X (0..(Len(c) - 1)) :
                  e[1] < e[2] /\ HullEdge(c, e[1] + 1, e[2] + 1)})

\* lines 82-88, the loop over the holes: each hole's indices start after
\* indices[-1]
RECURSIVE HoleLoop(_, _, _, _)
HoleLoop(hs, idx, fac, hfs) ==
    IF hs = <<>> THEN [indices |-> idx, facets |-> fac, hole_facets |-> hfs]
    ELSE LET last == idx[Len(idx)]
             hole_indices == Arange(last + 1, last + 1 + Len(Head(hs)))
             hf == CycleFacets(hole_indices)
         IN HoleLoop(Tail(hs), idx \o hole_indices, fac \o hf, Append(hfs, hf))

\* Polygon(hole).centroid minus r0, as <<x numerator, y numerator,
\* denominator>> in doubled units: the area centroid of the ring
HoleMarker(h, a) ==
    LET n == Len(h)
        nx(j) == h[(j % n) + 1]
        cr(j) == h[j][1] * nx(j)[2] - nx(j)[1] * h[j][2]
        sx == SumSeq([j \in 1..n |-> (h[j][1] + nx(j)[1]) * cr(j)])
        sy == SumSeq([j \in 1..n |-> (h[j][2] + nx(j)[2]) * cr(j)])
        den == 3 * SumSeq([j \in 1..n |-> cr(j)])
    IN <<2 * sx - TwoR0(a)[1] * den, 2 * sy - TwoR0(a)[2] * den, den>>

\* the check left out
InvalidCombinationNever(a) == FALSE

\* lines 70-74
InvalidCombination(a) == a.convex_hull /\ a.boundary # None

\* lines 69-88
Graph(a) ==
    LET idx == IF a.convex_hull THEN Arange(0, Len(DedupPoly(a)))
               ELSE SelectIndices(a)
        fac == IF a.convex_hull THEN ConvexHullSimplices(Recentered(a))
               ELSE CycleFacets(idx)
    IN HoleLoop(DedupHoles(a), idx, fac, <<>>)

\* lines 90-100
MeshInfo(a) ==
    [points |-> Recentered(a),
     facets |-> Graph(a).facets,
     holes |-> [j \in DOMAIN DedupHoles(a) |-> HoleMarker(DedupHoles(a)[j], a)]]

----------------------------------------------------------------------------
(* generate_mesh: the call *)

\* line 105
RefinementSkipped(a) ==
    /\ a.min_points = None
    /\ (a.max_edge_length = None \/ a.max_edge_length[1] <= 0)

\* the loop test with "and" where the source has "or"
LoopCondAnd(np, minp, ml, target) ==
    np < minp /\ (IsFinite(target) /\ ml > target[1])

\* line 116: (points.shape[0] < min_points) or (max_length > max_edge_length)
LoopCond(np, minp, ml, target) ==
    np < minp \/ (IsFinite(target) /\ ml > target[1])

\* a fresh option dictionary holding the area bound only
LoopOptionsFresh(kw, a) ==
    [NoOptions EXCEPT !["max_volume"] = Some(InitialMaxVolume(Dx(a), Dy(a)))]

\* lines 108-109: kwargs = kwargs.copy(); kwargs["max_volume"] = dx * dy / 100
LoopOptions(kw, a) ==
    [kw EXCEPT !["max_volume"] = Some(InitialMaxVolume(Dx(a), Dy(a)))]

\* maximum edge lengths a built mesh may have; the unit is fine enough for
\* target / length to fall on either side of 0.98^2
EdgeLengths == {25, 26, 50, 100}

\* what triangle.build may return: the input points plus inserted ones, and
\* any maximum edge length
Meshes(call, opts) ==
    {[np |-> Len(coords) + ins, ml |-> ml, call |-> call, opts |-> opts] :
        ins \in 0..MaxInserted, ml \in EdgeLengths}

Invocation == Some([mesh_info |-> mesh_info, opts |-> kwargs])

g_locals == <<poly_coords, hole_coords, coords, indices, facets, hole_facets,
              mesh_info>>

\* lines 54-100
Setup ==
    /\ pc = "call"
    /\ IF InvalidCombination(args)
       THEN /\ pc' = "raised"
            /\ error' = "ValueError"
            /\ UNCHANGED g_locals
       ELSE /\ pc' = "build"
            /\ poly_coords' = DedupPoly(args)
            /\ hole_coords' = DedupHoles(args)
            /\ coords' = Recentered(args)
            /\ indices' = Graph(args).indices
            /\ facets' = Graph(args).facets
            /\ hole_facets' = Graph(args).hole_facets
            /\ mesh_info' = MeshInfo(args)
            /\ UNCHANGED error
    /\ UNCHANGED <<args, kwargs, min_points, max_edge_length, mesh, max_length,
                   i, engine_calls, passed, result, u_vars, b_vars>>

\* lines 102-115: the first build, then either the return of line 106 or
\* the preparation of the loop
FirstBuild ==
    /\ pc = "build"
    /\ \E m \in Meshes(1, kwargs) :
        /\ engine_calls' = 1
        /\ passed' = Invocation
        /\ mesh' = Some(m)
        /\ IF RefinementSkipped(args)
           THEN /\ result' = Some(m)
                /\ pc' = "returned"
                /\ UNCHANGED <<kwargs, i, min_points, max_edge_length, max_length>>
           ELSE /\ kwargs' = LoopOptions(kwargs, args)
                /\ i' = 1
                /\ min_points' = IF min_points = None THEN Some(0) ELSE min_points
                /\ max_edge_length' =
                      IF max_edge_length = None \/ max_edge_length[1] <= 0
                      THEN None ELSE max_edge_length
                /\ max_length' = m.ml
                /\ pc' = "loop"
                /\ UNCHANGED result
    /\ UNCHANGED <<args, g_locals, error, u_vars, b_vars>>

\* lines 117-130: one pass of the loop body
Rebuild ==
    /\ pc = "loop"
    /\ LoopCond(mesh[1].np, min_points[1], max_length, max_edge_length)
    /\ i <= MaxIter
    /\ \E m \in Meshes(engine_calls + 1, kwargs) :
        /\ engine_calls' = engine_calls + 1
        /\ passed' = Invocation
        /\ mesh' = Some(m)
        /\ max_length' = m.ml
        /\ kwargs' = [kwargs EXCEPT !["max_volume"] =
                         Some(Shrink(kwargs["max_volume"][1], max_edge_length, m.ml))]
        /\ i' = i + 1
    /\ UNCHANGED <<args, g_locals, min_points, max_edge_length, result, error,
                   pc, u_vars, b_vars>>

\* lines 116 and 131: the loop test fails, the current pair is returned
Return ==
    /\ pc = "loop"
    /\ ~LoopCond(mesh[1].np, min_points[1], max_length, max_edge_length)
    /\ result' = mesh
    /\ pc' = "returned"
    /\ UNCHANGED <<args, g_locals, kwargs, min_points, max_edge_length, mesh,
                   max_length, i, engine_calls, passed, error, u_vars, b_vars>>

\* triangle.build raises (lines 102 and 117); the error reaches the caller
EngineRaises ==
    /\ \/ pc = "build"
       \/ /\ pc = "loop"
          /\ LoopCond(mesh[1].np, min_points[1], max_length, max_edge_length)
          /\ i <= MaxIter
    /\ engine_calls' = engine_calls + 1
    /\ passed' = Invocation
    /\ error' = "EngineError"
    /\ pc' = "raised"
    /\ UNCHANGED <<args, g_locals, kwargs, min_points, max_edge_length, mesh,
                   max_length, i, result, u_vars, b_vars>>

GNext == Setup \/ FirstBuild \/ Rebuild \/ Return \/ EngineRaises

----------------------------------------------------------------------------
(* generate_mesh: the calls that are made *)

Rectangle == <<<<0, 0>>, <<8, 0>>, <<8, 4>>, <<0, 4>>>>
\* the same ring with its first vertex repeated at the end
RectangleClosed == Rectangle \o <<<<0, 0>>>>
\* a quadrilateral whose last vertex shares no coordinate with the others
Quadrilateral == <<<<0, 0>>, <<8, 0>>, <<8, 4>>, <<2, 6>>>>

SquareHole == <<<<2, 1>>, <<4, 1>>, <<4, 3>>, <<2, 3>>>>
TriangleHoleClosed == <<<<5, 1>>, <<7, 1>>, <<6, 3>>, <<5, 1>>>>
\* a hole touching the outer ring at the corner (0, 0)
CornerHole == <<<<0, 0>>, <<1, 1>>, <<1, 2>>>>

\* boundary subsets: rows that are vertices of the outer ring, as the
\* docstring asks, so that at least one index is always selected
ThreeCorners == <<<<0, 0>>, <<8, 0>>, <<8, 4>>>>
RightSide == <<<<8, 4>>, <<8, 0>>>>

ArgsOf(p, h, mp, mel, ch, b, kw) ==
    [poly_coords |-> p, hole_coords |-> h, min_points |-> mp,
     max_edge_length |-> mel, convex_hull |-> ch, boundary |-> b, kwargs |-> kw]

CallerOptions ==
    {NoOptions,
     [NoOptions EXCEPT !["min_angle"] = Some(Real(25, 1))],
     [NoOptions EXCEPT !["max_volume"] = Some(Real(1, 2))],
     [NoOptions EXCEPT !["min_angle"] = Some(Real(25, 1)),
                       !["max_volume"] = Some(Real(1, 2))]}

\* calls that exercise the refinement loop
RefineCalls ==
    {ArgsOf(Rectangle, h, mp, mel, cb[1], cb[2], kw) :
        h \in {<<>>, <<SquareHole>>},
        mp \in {None, Some(0), Some(5), Some(9)},
        mel \in {None, Some(0), Some(25), Some(50)},
        cb \in {<<FALSE, None>>, <<TRUE, Some(ThreeCorners)>>},
        kw \in CallerOptions}

\* calls that exercise the construction of points and facets
GraphCalls ==
    {ArgsOf(p, h, mp, None, ch, b, kw) :
        p \in {Rectangle, RectangleClosed, Quadrilateral},
        h \in SeqsOf({SquareHole, TriangleHoleClosed, CornerHole}, 0, MaxHoles),
        mp \in {None, Some(9)},
        ch \in BOOLEAN,
        b \in {None, Some(ThreeCorners), Some(RightSide)},
        kw \in {NoOptions}}

\* triangle.MeshInfo() before set_points, set_facets, set_holes
NoMeshInfo == [points |-> <<>>, facets |-> <<>>, holes |-> <<>>]

GInitOf(calls) ==
    /\ args \in calls
    /\ pc = "call"
    /\ poly_coords = <<>> /\ hole_coords = <<>> /\ coords = <<>>
    /\ indices = <<>> /\ facets = <<>> /\ hole_facets = <<>>
    /\ mesh_info = NoMeshInfo
    /\ kwargs = args.kwargs
    /\ min_points = args.min_points
    /\ max_edge_length = args.max_edge_length
    /\ mesh = None /\ max_length = 0 /\ i = 0
    /\ engine_calls = 0 /\ passed = None /\ result = None /\ error = "none"

GIdle ==
    /\ args = ArgsOf(<<>>, <<>>, None, None, FALSE, None, NoOptions)
    /\ pc = "idle"
    /\ poly_coords = <<>> /\ hole_coords = <<>> /\ coords = <<>>
    /\ indices = <<>> /\ facets = <<>> /\ hole_facets = <<>>
    /\ mesh_info = NoMeshInfo
    /\ kwargs = NoOptions /\ min_points = None /\ max_edge_length = None
    /\ mesh = None /\ max_length = 0 /\ i = 0
    /\ engine_calls = 0 /\ passed = None /\ result = None /\ error = "none"

----------------------------------------------------------------------------
(* oriented_boundary *)

\* line 185: the boundary edges as segments between coordinates
Segments(pts, edges) ==
    {{pts[edges[j][1] + 1], pts[edges[j][2] + 1]} : j \in DOMAIN edges}

Neighbours(segs, v) == {w \in UNION segs : w # v /\ {v, w} \in segs}

\* the closed walk s, n, ... , s along a cycle of segments
RECURSIVE RingFrom(_, _, _, _)
RingFrom(segs, s, prev, cur) ==
    IF cur = s THEN <<s>>
    ELSE <<cur>> \o RingFrom(segs, s, cur,
                             CHOOSE w \in Neighbours(segs, cur) \ {prev} : TRUE)

Ring(segs, s, n) == <<s>> \o RingFrom(segs, s, s, n)

\* every closed walk around a cycle: any first vertex, either direction
AllRings(segs) ==
    {Ring(segs, sn[1], sn[2]) :
        sn \in {x \in (UNION segs) \X (UNION segs) : x[2] \in Neighbours(segs, x[1])}}

\* line 186, list(polygonize(edges)), for segments that form vertex-disjoint
\* simple cycles: one polygon per cycle (the outer one, and one filling each
\* hole), given here by its exterior ring as a closed coordinate sequence.
\* The order of the polygons, and each ring's first vertex and direction,
\* are the library's: any is possible.
Polygonize(segs) ==
    LET rings == AllRings(segs)
        k == Cardinality({Range(r) : r \in rings})
    IN {ps \in [1..k -> rings] :
           \A j, m \in 1..k : j # m => Range(ps[j]) # Range(ps[m])}

\* twice the signed area of a closed ring
SignedArea2(ring) ==
    SumSeq([j \in 1..(Len(ring) - 1) |->
               ring[j][1] * ring[j + 1][2] - ring[j + 1][1] * ring[j][2]])

Reverse(s) == [j \in DOMAIN s |-> s[Len(s) + 1 - j]]

\* the ring left as polygonize gave it
OrientNot(ring) == ring

\* line 189, orient(p): the exterior ring, reversed when it runs clockwise
Orient(ring) == IF SignedArea2(ring) >= 0 THEN ring ELSE Reverse(ring)

\* line 190: points_list.index(xy) for each coordinate of the ring (0-based)
IndexRing(pts, ring) == [j \in DOMAIN ring |-> FirstIndex(pts, ring[j]) - 1]

\* indices[:-1]
DropLast(s) == SubSeq(s, 1, Len(s) - 1)

BPolygonize ==
    /\ b_pc = "call"
    /\ polygons' \in Polygonize(Segments(points, boundary_edges))
    /\ b_pc' = "loop"
    /\ UNCHANGED <<points, boundary_edges, polygon_indices, u_vars, g_vars>>

\* lines 188-191, one pass of the loop
BOrientPolygon ==
    /\ b_pc = "loop"
    /\ polygons # <<>>
    /\ polygon_indices' =
          Append(polygon_indices, DropLast(IndexRing(points, Orient(Head(polygons)))))
    /\ polygons' = Tail(polygons)
    /\ UNCHANGED <<b_pc, points, boundary_edges, u_vars, g_vars>>

\* line 192
BReturn ==
    /\ b_pc = "loop"
    /\ polygons = <<>>
    /\ b_pc' = "returned"
    /\ UNCHANGED <<points, boundary_edges, polygons, polygon_indices, u_vars, g_vars>>

BNext == BPolygonize \/ BOrientPolygon \/ BReturn

\* boundary loops of a meshed rectangle: the outer ring, with or without a
\* vertex the engine put on its lower edge, and holes inside it
OuterLoops ==
    {<<<<0, 0>>, <<8, 0>>, <<8, 4>>, <<0, 4>>>>,
     <<<<0, 0>>, <<4, 0>>, <<8, 0>>, <<8, 4>>, <<0, 4>>>>}
HoleLoops ==
    {<<<<1, 1>>, <<2, 1>>, <<2, 3>>, <<1, 3>>>>,
     <<<<3, 1>>, <<5, 1>>, <<4, 3>>>>,
     <<<<6, 1>>, <<7, 1>>, <<7, 3>>, <<6, 3>>>>}
\* a mesh vertex on no boundary
InteriorVertex == <<5, 3>>

\* the edges of a loop whose vertices sit at offset.. in the vertex array,
\* every second one written end first
LoopEdges(offset, n) ==
    [j \in 1..n |->
        IF j % 2 = 0 THEN <<offset + (j % n), offset + j - 1>>
        ELSE <<offset + j - 1, offset + (j % n)>>]

RECURSIVE EdgesOf(_, _)
EdgesOf(loops, offset) ==
    IF loops = <<>> THEN <<>>
    ELSE LoopEdges(offset, Len(Head(loops))) \o
         EdgesOf(Tail(loops), offset + Len(Head(loops)))

\* vertex array and edge array of a mesh with these boundary loops; with
\* rev the vertex array is stored back to front
MeshBoundary(loops, rev) ==
    LET vs == <<InteriorVertex>> \o Concat(loops)
        es == EdgesOf(loops, 1)
        n == Len(vs)
    IN IF rev
       THEN [points |-> Reverse(vs),
             edges |-> [j \in DOMAIN es |-> <<n - 1 - es[j][1], n - 1 - es[j][2]>>]]
       ELSE [points |-> vs, edges |-> es]

RECURSIVE SeqOfSet(_)
SeqOfSet(S) ==
    IF S = {} THEN <<>>
    ELSE LET m == CHOOSE x \in S : TRUE IN <<m>> \o SeqOfSet(S \ {m})

BoundaryInputs ==
    {MeshBoundary(<<o>> \o SeqOfSet(hs), rev) :
        o \in OuterLoops,
        hs \in {h \in SUBSET HoleLoops : Cardinality(h) <= MaxLoops},
        rev \in BOOLEAN}

BInit ==
    /\ b_pc = "call"
    /\ \E inp \in BoundaryInputs :
          points = inp.points /\ boundary_edges = inp.edges
    /\ polygons = <<>>
    /\ polygon_indices = <<>>

----------------------------------------------------------------------------
(* Specifications *)

BIdle ==
    /\ b_pc = "idle" /\ points = <<>> /\ boundary_edges = <<>>
    /\ polygons = <<>> /\ polygon_indices = <<>>

\* generate_mesh, calls exercising the refinement loop
Init == UIdle /\ BIdle /\ GInitOf(RefineCalls)
Next == GNext
Spec == Init /\ [][Next]_vars

\* generate_mesh, calls exercising the construction of points and facets
InitGraph == UIdle /\ BIdle /\ GInitOf(GraphCalls)
SpecGraph == InitGraph /\ [][GNext]_vars

\* ensure_unique
InitUnique == UInit /\ GIdle /\ BIdle
NextUnique == CallEnsureUnique \/ CallEnsureUniqueAgain
SpecUnique == InitUnique /\ [][NextUnique]_vars

\* oriented_boundary
InitBoundary == UIdle /\ GIdle /\ BInit
SpecBoundary == InitBoundary /\ [][BNext]_vars

----------------------------------------------------------------------------
(* Properties of ensure_unique *)

\* C3: ensure_unique returns each distinct coordinate of its input exactly
\* once, in the order of first occurrence: an input without repeats comes
\* back unchanged, an input with repeats comes back strictly shorter, and a
\* second application changes nothing.
C3_FirstOccurrenceOrder ==
    u_pc # "call" =>
        /\ Range(u_once) = Range(u_coords)
        /\ NoDup(u_once)
        /\ \A j, k \in DOMAIN u_once :
              j < k =>
                 \E a \in DOMAIN u_coords :
                    /\ u_coords[a] = u_once[j]
                    /\ \A b \in DOMAIN u_coords : u_coords[b] = u_once[k] => a < b
        /\ (NoDup(u_coords) => u_once = u_coords)
        /\ (~NoDup(u_coords) => Len(u_once) < Len(u_coords))
        /\ (u_pc = "twice" => u_twice = u_once)

\* a repeated input whose distinct rows first occur out of sorted order
C3_Witness ==
    /\ u_pc = "twice"
    /\ ~NoDup(u_coords)
    /\ Len(u_once) >= 3
    /\ RowLess(u_once[2], u_once[1])

----------------------------------------------------------------------------
(* Properties of generate_mesh *)

Requested == ~RefinementSkipped(args)
PositiveTarget == args.max_edge_length # None /\ args.max_edge_length[1] > 0

\* the points given by the caller, before any deduplication
InputPoints ==
    Range(args.poly_coords) \cup
    UNION {Range(args.hole_coords[j]) : j \in DOMAIN args.hole_coords}

\* area of the bounding box of the input points
BBoxArea ==
    Ptp({p[1] : p \in InputPoints}) * Ptp({p[2] : p \in InputPoints})

\* C1: a call with a min_points and/or positive max_edge_length target that
\* returns, returns a mesh with at least min_points vertices and a maximum
\* edge length of at most max_edge_length, and that mesh is the one of the
\* last engine invocation.
C1_TargetsMet ==
    (pc = "returned" /\ Requested) =>
        /\ args.min_points # None => result[1].np >= args.min_points[1]
        /\ PositiveTarget => result[1].ml <= args.max_edge_length[1]
        /\ result[1].call = engine_calls
        /\ result = mesh

\* both targets given, met only after rebuilding
C1_Witness ==
    /\ pc = "returned"
    /\ args.min_points = Some(9)
    /\ args.max_edge_length = Some(25)
    /\ engine_calls >= 3

\* C2: with convex_hull = True and a boundary given the call ends in a
\* ValueError; the engine is never invoked and nothing is returned.
C2_Rejected ==
    (args.convex_hull /\ args.boundary # None) =>
        /\ engine_calls = 0
        /\ passed = None
        /\ mesh = None
        /\ result = None
        /\ pc \in {"call", "raised"}
        /\ pc = "raised" => error = "ValueError"

\* the rejected call also had holes, a target and engine options
C2_Witness ==
    /\ pc = "raised"
    /\ error = "ValueError"
    /\ args.convex_hull
    /\ args.boundary # None
    /\ args.hole_coords # <<>>
    /\ args.min_points # None
    /\ args.kwargs # NoOptions

\* C4: the point array handed to the engine never holds one coordinate at
\* two indices.
C4_NoDuplicatePoints ==
    passed # None => NoDup(passed[1].mesh_info.points)

\* C5: every option the caller passes, max_volume included, reaches every
\* engine invocation unchanged.
C5_AllOptionsForwarded ==
    passed # None =>
        \A key \in OptionKeys :
            args.kwargs[key] # None => passed[1].opts[key] = args.kwargs[key]

\* C5 as amended: every option other than max_volume reaches every engine
\* invocation unchanged, and no other option is added; the first invocation
\* receives the caller's options as they are, max_volume included; every
\* rebuild of the refinement loop receives the loop's own area bound as
\* max_volume in place of the caller's.
C5_OptionsForwardedExceptAreaBound ==
    passed # None =>
        /\ \A key \in OptionKeys \ {"max_volume"} :
              passed[1].opts[key] = args.kwargs[key]
        /\ engine_calls = 1 => passed[1].opts = args.kwargs
        /\ engine_calls > 1 =>
              /\ passed[1].opts["max_volume"] # None
              /\ passed[1].opts["max_volume"][1].n * 100
                    = BBoxArea * passed[1].opts["max_volume"][1].d

\* a rebuild of a call that passed both min_angle and max_volume
C5_Witness ==
    /\ engine_calls >= 2
    /\ args.kwargs["min_angle"] # None
    /\ args.kwargs["max_volume"] # None
    /\ passed[1].opts["max_volume"] # args.kwargs["max_volume"]
    /\ passed[1].opts["min_angle"] = args.kwargs["min_angle"]

\* the outer-ring part of indices, and of facets
OuterCount == Len(indices) - SumSeq([j \in DOMAIN hole_coords |-> Len(hole_coords[j])])
OuterIndices == SubSeq(indices, 1, OuterCount)
OuterFacets == SubSeq(facets, 1, OuterCount)

\* row ix of the outer ring equals, in both coordinates, a boundary row
MatchesBoundaryPoint(ix) ==
    \E j \in DOMAIN args.boundary[1] :
        poly_coords[ix + 1] = args.boundary[1][j]

\* C7: without convex_hull, the outer-ring indices used for facets are, when
\* a boundary is given, exactly the indices whose coordinate pair equals the
\* pair of a boundary point, and all outer-ring indices otherwise; the facets
\* join consecutive selected indices in a closed cycle.
C7_ExactBoundarySelection ==
    (pc \in {"build", "loop", "returned"} /\ ~args.convex_hull) =>
        /\ \A ix \in 0..(Len(poly_coords) - 1) :
              ix \in Range(OuterIndices) <=>
                 (args.boundary = None \/ MatchesBoundaryPoint(ix))
        /\ \A j, k \in DOMAIN OuterIndices :
              j < k => OuterIndices[j] < OuterIndices[k]
        /\ \A j \in DOMAIN OuterIndices :
              OuterFacets[j] =
                 <<OuterIndices[j], OuterIndices[(j % OuterCount) + 1]>>

\* first index (0-based) of hole j in the combined point array
HoleOffset(j) ==
    Len(poly_coords) + SumSeq([m \in 1..(j - 1) |-> Len(hole_coords[m])])

\* C8: in every call reaching the engine, the facets of hole j are the closed
\* cycle over the index range of hole j's points in the combined array, and
\* every facet joins two distinct valid indices.
C8_HoleFacetRanges ==
    passed # None =>
        /\ \A j \in DOMAIN hole_coords :
              /\ Len(hole_facets[j]) = Len(hole_coords[j])
              /\ \A m \in DOMAIN hole_facets[j] :
                    hole_facets[j][m] =
                       <<HoleOffset(j) + m - 1,
                         HoleOffset(j) + (m % Len(hole_coords[j]))>>
        /\ \A f \in Range(passed[1].mesh_info.facets) :
              /\ f[1] # f[2]
              /\ f[1] \in 0..(Len(passed[1].mesh_info.points) - 1)
              /\ f[2] \in 0..(Len(passed[1].mesh_info.points) - 1)

\* the area bound an invocation was given
AreaBound(inv) == inv[1].opts["max_volume"][1]

\* new <= 0.98 * old for two bounds with the same rational part, compared
\* through their squares
AtMostCapTimes(new, old) ==
    /\ new.n * old.d = old.n * new.d
    /\ \/ /\ new.k = old.k + 1
          /\ new.rn * old.rd <= new.rd * old.rn
       \/ /\ new.k = old.k
          /\ 2500 * new.rn * old.rd <= 2401 * new.rd * old.rn

\* new = old * min(0.98, sqrt(t / m))
IsShrunkByTarget(new, old, t, m) ==
    /\ new.n * old.d = old.n * new.d
    /\ IF 2500 * t < 2401 * m
       THEN new.k = old.k /\ new.rn * old.rd * m = new.rd * old.rn * t
       ELSE new.k = old.k + 1 /\ new.rn * old.rd = new.rd * old.rn

\* new = old * 0.98
IsShrunkByCap(new, old) ==
    /\ new.n * old.d = old.n * new.d
    /\ new.k = old.k + 1
    /\ new.rn * old.rd = new.rd * old.rn

\* C9: the first rebuild is given the bounding-box area / 100 as area bound;
\* each later rebuild is given the previous bound times
\* min(0.98, sqrt(target / max edge length measured on the previous rebuild))
\* under a finite target and times 0.98 otherwise, so each bound is at most
\* 0.98 times the one before; points, facets and hole markers are the same in
\* every invocation.
C9_AreaBoundSchedule ==
    [][(engine_calls >= 1 /\ engine_calls' = engine_calls + 1) =>
          /\ passed'[1].mesh_info = passed[1].mesh_info
          /\ passed'[1].opts["max_volume"] # None
          /\ IF engine_calls = 1
             THEN /\ AreaBound(passed').n * 100 = BBoxArea * AreaBound(passed').d
                  /\ AreaBound(passed').k = 0
                  /\ AreaBound(passed').rn = AreaBound(passed').rd
             ELSE /\ IF PositiveTarget
                     THEN IsShrunkByTarget(AreaBound(passed'), AreaBound(passed),
                                           args.max_edge_length[1], mesh[1].ml)
                     ELSE IsShrunkByCap(AreaBound(passed'), AreaBound(passed))
                  /\ AtMostCapTimes(AreaBound(passed'), AreaBound(passed))]_vars

\* a fourth invocation whose bound was shrunk once by the root and once by 0.98
C9_Witness ==
    /\ engine_calls = 4
    /\ PositiveTarget
    /\ AreaBound(passed).k = 1
    /\ AreaBound(passed).rd > AreaBound(passed).rn
    /\ args.hole_coords # <<>>

\* v <= bounding-box area / 100
AtMostInitialBound(v) ==
    /\ v.n * 100 <= BBoxArea * v.d
    /\ v.rn <= v.rd

\* C10: under refinement, the stopping test is applied only to meshes built
\* with an area bound of at most bounding-box area / 100, the first tested
\* and every returned mesh included.
C10_TestedMeshUsesAreaBound ==
    (pc \in {"loop", "returned"} /\ Requested) =>
        /\ mesh[1].opts["max_volume"] # None
        /\ AtMostInitialBound(mesh[1].opts["max_volume"][1])

\* C10 as amended: under refinement, the first mesh the stopping test is
\* applied to is the one of the first engine invocation, built with the
\* caller's options as they are; every mesh tested after it comes from a
\* rebuild whose area bound is at most bounding-box area / 100; the mesh
\* returned is the last one tested.
C10_TestedMeshes ==
    (pc \in {"loop", "returned"} /\ Requested) =>
        /\ mesh[1].call = engine_calls
        /\ \/ /\ mesh[1].call = 1
              /\ mesh[1].opts = args.kwargs
           \/ /\ mesh[1].call >= 2
              /\ mesh[1].opts["max_volume"] # None
              /\ AtMostInitialBound(mesh[1].opts["max_volume"][1])
        /\ pc = "returned" => result = mesh

\* a mesh returned from a rebuild
C10_Witness ==
    /\ pc = "returned"
    /\ Requested
    /\ mesh[1].call >= 2
    /\ args.kwargs["max_volume"] # None

----------------------------------------------------------------------------
(* Properties of oriented_boundary *)

\* the boundary edges as unordered index pairs, and the indices they join
EdgeSet == {{boundary_edges[j][1], boundary_edges[j][2]} : j \in DOMAIN boundary_edges}
BoundaryVertices == UNION EdgeSet

\* the indices connected to those of S by boundary edges
RECURSIVE Connected(_)
Connected(S) ==
    LET T == S \cup {w \in BoundaryVertices : \E v \in S : {v, w} \in EdgeSet}
    IN IF T = S THEN S ELSE Connected(T)

\* the cycles of the boundary edge set, each as its set of indices
Cycles == {Connected({v}) : v \in BoundaryVertices}

\* twice the signed area of the polygon through the points at idx
IndexedArea2(idx) ==
    SumSeq([j \in DOMAIN idx |->
               points[idx[j] + 1][1] * points[idx[(j % Len(idx)) + 1] + 1][2]
               - points[idx[(j % Len(idx)) + 1] + 1][1] * points[idx[j] + 1][2]])

\* C6: for distinct vertex coordinates and boundary edges forming k
\* vertex-disjoint simple cycles, oriented_boundary returns k index
\* sequences; each lists the indices of one cycle once each (without the
\* closing index), consecutive indices being joined by an edge, in
\* counterclockwise order, and no index is in two sequences.
C6_OrientedLoops ==
    b_pc = "returned" =>
        /\ Len(polygon_indices) = Cardinality(Cycles)
        /\ \A j \in DOMAIN polygon_indices :
              LET idx == polygon_indices[j]
              IN /\ Range(idx) \in Cycles
                 /\ Len(idx) = Cardinality(Range(idx))
                 /\ \A m \in DOMAIN idx :
                       {idx[m], idx[(m % Len(idx)) + 1]} \in EdgeSet
                 /\ IndexedArea2(idx) > 0
        /\ \A j, m \in DOMAIN polygon_indices :
              j # m => Range(polygon_indices[j]) \cap Range(polygon_indices[m]) = {}

\* an outer loop with a vertex on its lower edge and a triangular hole, in a
\* mesh that also has an interior vertex
C6_Witness ==
    /\ b_pc = "returned"
    /\ Len(polygon_indices) = 2
    /\ Len(polygon_indices[1]) = 5
    /\ Len(polygon_indices[2]) = 3
    /\ Len(points) = 9

====
